---- MODULE Spec2Model ----
(***************************************************************************)
(* Model of app.py: the asynchronous CSV "replace" pipeline                *)
(* (admin_upload_start, _run_replace_job, _update_job) over a document     *)
(* store whose collections are addressed by name.                          *)
(*                                                                         *)
(* Strings are sequences of one-token strings so that str.strip(),         *)
(* str.upper() and str.lstrip(BOM) are computed, not assumed.         *)
(* The four document keys unique_id / 날짜 / 시간 / 인증샷 시리얼넘버 are    *)
(* written unique_id / date / time / serial.                               *)
(***************************************************************************)
EXTENDS Integers, Sequences, FiniteSets, Bags, TLC

(* ------------------------------ bounds -------------------------------- *)
\* number of upload requests accepted in one behaviour
MaxJobs == 2
\* number of data rows of an uploaded file
MaxRows == 3
\* last value of the wall clock, in whole seconds (int(time.time()))
MaxTime == 1
\* batch_size of _run_replace_job, scaled down from 3000
batch_size == 2
\* number of store calls that the store rejects in one behaviour
MaxFaults == 1

(* ------------------------------ strings ------------------------------- *)
SP  == " "
BOM == "\\ufeff"
\* the value csv.DictReader stores for a field a short row does not have
NoneVal == <<"None">>

RECURSIVE lstrip(_, _)
lstrip(s, ch) ==
    IF s # <<>> /\ Head(s) = ch THEN lstrip(Tail(s), ch) ELSE s

RECURSIVE rstrip(_, _)
rstrip(s, ch) ==
    IF s # <<>> /\ s[Len(s)] = ch THEN rstrip(SubSeq(s, 1, Len(s) - 1), ch) ELSE s

\* str.strip(): whitespace removed at both ends
strip(s) == rstrip(lstrip(s, SP), SP)

upper_char(c) ==
    CASE c = "a" -> "A"
      [] c = "b" -> "B"
      [] OTHER   -> c

\* a normalizer that forgets to upper-case the identifier
upper_forgotten(s) == s

\* str.upper()
upper(s) == [i \in 1..Len(s) |-> upper_char(s[i])]

(* ------------------------------ headers ------------------------------- *)
H_UID    == <<"unique_id">>
H_DATE   == <<"date">>
H_TIME   == <<"time">>
H_SERIAL == <<"serial">>

REQUIRED_HEADERS == {H_UID, H_DATE, H_TIME, H_SERIAL}

\* one raw header -> its normalized form: (f or "").strip().lstrip(BOM)
normalize_header(f) == lstrip(strip(f), BOM)

\* _normalize_headers_map: raw header -> normalized header
\* (a dict: a raw header that occurs twice is one key)
_normalize_headers_map(raw_fields) ==
    [f \in {raw_fields[i] : i \in 1..Len(raw_fields)} |-> normalize_header(f)]

Range(f) == {f[x] : x \in DOMAIN f}

\* csv.DictReader row: dict(zip(fieldnames, row)), a missing trailing field is
\* None; with a repeated raw header the last column wins
row_get(fieldnames, row, k) ==
    LET cols == {i \in 1..Len(fieldnames) : fieldnames[i] = k}
        last_col == CHOOSE i \in cols : \A m \in cols : m <= i
    IN  IF last_col <= Len(row) THEN row[last_col] ELSE NoneVal

\* get(row, want) of _run_replace_job: the value under the first raw header
\* (in fieldnames order, the dict's insertion order) normalizing to want
get(fieldnames, row, want) ==
    LET fmap == _normalize_headers_map(fieldnames)
        hit  == {i \in 1..Len(fieldnames) : fmap[fieldnames[i]] = want}
    IN  IF hit = {} THEN <<>>
        ELSE LET first == CHOOSE i \in hit : \A m \in hit : i <= m
             IN  row_get(fieldnames, row, fieldnames[first])

(* --------------------------- uploaded files --------------------------- *)
\* header line of a well-formed upload: a byte-order mark before the first
\* name and blanks around another one
GoodHeader == << <<BOM>> \o H_UID, <<SP>> \o H_DATE \o <<SP>>, H_TIME, H_SERIAL >>
\* header line without the serial column
BadHeader  == << H_UID, H_DATE, H_TIME >>
\* header line whose first name has a blank after the byte-order mark: strip()
\* leaves the mark in front, lstrip(BOM) then leaves the blank
BomBlankHeader == << <<BOM, SP>> \o H_UID, H_DATE, H_TIME, H_SERIAL >>
Headers    == {GoodHeader, BadHeader, BomBlankHeader}

F_DATE   == <<"d">>
F_TIME   == <<"t">>
F_SERIAL == <<"s">>

\* raw data rows, in the column order of the header line
R_lower == << <<"a", "1">>, F_DATE, F_TIME, F_SERIAL >>
R_upper == << <<SP, "A", "1">>, F_DATE, <<F_TIME[1], SP>>, F_SERIAL >>
R_other == << <<"b", "2">>, F_DATE, F_TIME, F_SERIAL >>
R_blank == << <<"A", "1">>, F_DATE, F_TIME, <<SP>> >>
R_short == << <<"A", "1">>, F_DATE, F_TIME >>
RawRows == {R_lower, R_upper, R_other, R_blank, R_short}

RowSeqs == UNION {[1..n -> RawRows] : n \in 0..MaxRows}
\* the files an upload is drawn from; under the header line that is rejected
\* the rows are never read, one row stands for them
Files   == [fieldnames : {GoodHeader}, rows : RowSeqs]
             \cup [fieldnames : Headers \ {GoodHeader}, rows : {rs \in RowSeqs : Len(rs) <= 1}]
\* the files of the uploads of a behaviour with several jobs: consecutive
\* jobs upload different files
FileA == [fieldnames |-> GoodHeader, rows |-> <<R_lower>>]
FileB == [fieldnames |-> GoodHeader, rows |-> <<R_other>>]
ConcurrentFile(job_id) == IF job_id % 2 = 1 THEN FileA ELSE FileB

\* the dataset the store holds under the active name when the process starts
OldDoc  == [unique_id |-> <<"O", "0">>, date |-> F_DATE, time |-> F_TIME, serial |-> F_SERIAL]
OldData == SetToBag({OldDoc})

(* ------------------------------ one row ------------------------------ *)
\* the document built from one row (lines 731-736); a None field has no
\* strip() and raises
has_none(fieldnames, row) ==
    \E h \in REQUIRED_HEADERS : get(fieldnames, row, h) = NoneVal

make_doc(fieldnames, row) ==
    [unique_id |-> upper(strip(get(fieldnames, row, H_UID))),
     date      |-> strip(get(fieldnames, row, H_DATE)),
     time      |-> strip(get(fieldnames, row, H_TIME)),
     serial    |-> strip(get(fieldnames, row, H_SERIAL))]

\* line 738: all four fields are needed
is_skipped(doc) ==
    doc.unique_id = <<>> \/ doc.date = <<>> \/ doc.time = <<>> \/ doc.serial = <<>>

\* has_none and make_doc of every header line and row an upload is made of,
\* computed once
row_table ==
    [fieldnames \in Headers, row \in RawRows |->
        [none |-> has_none(fieldnames, row), doc |-> make_doc(fieldnames, row)]]

(* ----------------------- what a file should load ---------------------- *)
\* the positions of the rows of a file that carry all four fields
valid_rows(file) ==
    {i \in 1..Len(file.rows) :
        /\ ~has_none(file.fieldnames, file.rows[i])
        /\ ~is_skipped(make_doc(file.fieldnames, file.rows[i]))}

\* the distinct normalized 4-tuples of the valid rows of a file
valid_docs(file) ==
    {make_doc(file.fieldnames, file.rows[i]) : i \in valid_rows(file)}

\* the rows with a field that is empty after trimming
invalid_rows(file) ==
    {i \in 1..Len(file.rows) :
        /\ ~has_none(file.fieldnames, file.rows[i])
        /\ \E h \in REQUIRED_HEADERS : strip(get(file.fieldnames, file.rows[i], h)) = <<>>}

\* an uploaded file with what it should load: the distinct normalized
\* 4-tuples, the number of valid rows, the number of invalid rows
Expected(file) ==
    [file    |-> file,
     docs    |-> valid_docs(file),
     valid   |-> Cardinality(valid_rows(file)),
     invalid |-> Cardinality(invalid_rows(file))]

(* ------------------------------- names -------------------------------- *)
\* collection.name
target_name == <<"target", 0, 0>>
\* a loader that writes into the active collection itself
temp_name_in_place(t, job_id) == target_name

\* a staging name without the job identifier
temp_name_no_job(t, job_id) == <<"tmp", t, 0>>

\* f"{target_name}_tmp_{int(time.time())}_{job_id}"
temp_name_of(t, job_id) == <<"tmp", t, job_id>>
\* f"{target_name}_bak_{int(time.time())}"
backup_name_of(t) == <<"bak", t, 0>>

\* None of ended_at, and of error
NoTime  == -1
NoError == [text |-> "None"]

\* str(e) of an exception raised by the store or by the interpreter
str_e(name) == [text |-> name]
\* str(e) of the ValueError of line 722, f"CSV 헤더 불일치: got={list(norm_set)}":
\* its fixed text and the value formatted into it
HeaderMismatch(norm_set) == [text |-> "CSV header mismatch", got |-> norm_set]

(* ------------------------------- state -------------------------------- *)
VARIABLES
    now,      \* int(time.time())
    colls,    \* the database: collection name -> bag of documents
    JOBS,     \* the job registry: job_id -> job dict
    tmpfs,    \* /tmp/upload_<job_id>.csv: job_id -> file contents
    th,       \* the worker thread of each job: its position (pc), its locals
              \* and pos, the number of rows the csv reader has yielded
    sent,     \* history: job_id -> Expected(the file uploaded for it)
    pre_swap, \* history: job_id -> the active collection as it was when the
              \* job issued its first rename, and whether that rename moved it
    faults,   \* the store calls rejected so far
    env,      \* the process configuration: ADMIN_TOKEN and whether the store
              \* connection was made at start-up (client, collection)
    last,     \* history: the last ingestion-start request and its response
    view      \* the summary or export request in progress and its response

vars == <<now, colls, JOBS, tmpfs, th, sent, pre_swap, faults, env, last, view>>

\* a store call raises (pymongo error), or returns normally; rejected calls
\* are explored in the behaviours of one job and of a pair of jobs
store_raises  ==
    /\ faults < MaxFaults
    /\ Cardinality(DOMAIN JOBS) <= 2
    /\ faults' = faults + 1
store_returns == faults' = faults

JobIds == 1..MaxJobs

(* ----------------------- configuration, requests ---------------------- *)
\* the value the operator configured as ADMIN_TOKEN
Secret == <<"s", "3">>
\* os.environ.get("ADMIN_TOKEN", ""): the variable set to Secret, or not set
AdminTokens == {Secret, <<>>}
\* what a request carries as form field token (NoneVal: no such field)
FormTokens == {NoneVal, Secret, <<SP>> \o Secret, <<"x">>}
\* what a request carries as header X-Admin-Token
HeaderTokens == {NoneVal, Secret}
\* what a request carries as form field encoding
FormEncodings == {"None", "cp949"}
\* request.files.get("file") of a request without a file
NoFile == [fieldnames |-> <<>>, rows |-> <<>>]

\* the fallback list of line 393
Fallback == <<"utf-8", "utf-8-sig", "cp949", "euc-kr">>
Encodings == {Fallback[i] : i \in 1..Len(Fallback)}

\* the bytes of an upload, by the encodings that decode them: head, those
\* under which the first readline() succeeds; whole, those under which the
\* whole file is read without UnicodeDecodeError
D_ascii == [head |-> Encodings, whole |-> Encodings]
D_cp949 == [head |-> {"cp949", "euc-kr"}, whole |-> {"cp949", "euc-kr"}]
D_tail  == [head |-> {"utf-8", "utf-8-sig", "cp949"}, whole |-> {"cp949"}]
D_head  == [head |-> {"cp949"}, whole |-> {}]
D_none  == [head |-> {}, whole |-> {}]
Decodings == {D_ascii, D_cp949, D_tail, D_head, D_none}

\* x or y of two values that are None, "" or a non-empty string
or_else(x, y) == IF x # NoneVal /\ x # <<>> THEN x ELSE y

\* lines 389-400: the encoding the handler goes on with: enc when the first
\* line decodes under it, else the first candidate of the fallback list
\* under which it does, else enc again
resolve_encoding(enc, decodes) ==
    IF enc \in decodes.head THEN enc
    ELSE IF \E i \in 1..Len(Fallback) : Fallback[i] \in decodes.head
    THEN Fallback[CHOOSE i \in 1..Len(Fallback) :
                    /\ Fallback[i] \in decodes.head
                    /\ \A m \in 1..(i - 1) : Fallback[m] \notin decodes.head]
    ELSE enc

\* the log entry of a request and its response; job_id is the identifier the
\* handler drew (0: it drew none)
Logged(form, header, encoding, has_file, decodes, code, job_id) ==
    [form |-> form, header |-> header, encoding |-> encoding,
     has_file |-> has_file, decodes |-> decodes, code |-> code, job_id |-> job_id]

\* documents of a collection; a collection that does not exist reads as empty
docs_of(name) == IF name \in DOMAIN colls THEN colls[name] ELSE EmptyBag

Init ==
    /\ now = 0
    /\ colls = (target_name :> OldData)
    /\ JOBS = << >>
    /\ tmpfs = << >>
    /\ th = << >>
    /\ sent = << >>
    /\ pre_swap = << >>
    /\ faults = 0
    /\ env = [ADMIN_TOKEN |-> Secret, connected |-> TRUE]
    /\ last = Logged(NoneVal, NoneVal, "None", FALSE, D_ascii, 0, 0)
    /\ view = [pc |-> "idle"]

(* --------------------------- job registry ----------------------------- *)
\* _update_job(job_id, **kw): kw is a function from field names to values
_update_job(jobs, job_id, kw) ==
    IF job_id \in DOMAIN jobs
    THEN [jobs EXCEPT ![job_id] = kw @@ jobs[job_id]]
    ELSE jobs

\* the files the next upload is drawn from: every file of Files for the
\* first job, ConcurrentFile for the jobs of a behaviour with several jobs
UploadMenu ==
    IF DOMAIN JOBS = {} THEN Files
    ELSE IF \A j \in DOMAIN sent : sent[j].file = ConcurrentFile(j)
         THEN {ConcurrentFile(Cardinality(DOMAIN JOBS) + 1)}
         ELSE {}

\* _count_csv_lines_fast: lines of the file minus the header line
_count_csv_lines_fast(file) ==
    LET cnt == (IF file.fieldnames = <<>> THEN 0 ELSE 1) + Len(file.rows)
    IN  IF cnt - 1 > 0 THEN cnt - 1 ELSE 0

\* admin_upload_start: token check (401), connection check (500), file check
\* (400); then the upload is saved under a fresh job id, its encoding is
\* resolved and its lines are counted (a UnicodeDecodeError of that count
\* leaves the handler: response 500), the job is registered and its worker
\* thread is started (200)
admin_upload_start(form, header, encoding, file, decodes) ==
    LET token  == strip(or_else(or_else(form, header), <<>>))
        enc    == resolve_encoding(IF encoding # "None" THEN encoding ELSE "utf-8", decodes)
        job_id == Cardinality(DOMAIN JOBS \cup DOMAIN tmpfs) + 1
        total  == _count_csv_lines_fast(file)
    IN  IF token # env.ADMIN_TOKEN
        THEN /\ last' = Logged(form, header, encoding, file # NoFile, decodes, 401, 0)
             /\ UNCHANGED <<now, colls, JOBS, tmpfs, th, sent, pre_swap, faults, env, view>>
        ELSE IF ~env.connected
        THEN /\ last' = Logged(form, header, encoding, file # NoFile, decodes, 500, 0)
             /\ UNCHANGED <<now, colls, JOBS, tmpfs, th, sent, pre_swap, faults, env, view>>
        ELSE IF file = NoFile
        THEN /\ last' = Logged(form, header, encoding, FALSE, decodes, 400, 0)
             /\ UNCHANGED <<now, colls, JOBS, tmpfs, th, sent, pre_swap, faults, env, view>>
        ELSE /\ Cardinality(DOMAIN JOBS \cup DOMAIN tmpfs) < MaxJobs
             /\ Cardinality(DOMAIN JOBS) >= 2 => faults = 0
             /\ tmpfs' = (job_id :> file) @@ tmpfs
             /\ IF enc \notin decodes.whole
                THEN /\ last' = Logged(form, header, encoding, TRUE, decodes, 500, job_id)
                     /\ UNCHANGED <<JOBS, th, sent>>
                ELSE /\ sent' = (job_id :> Expected(file)) @@ sent
                     /\ JOBS' = (job_id :> [status |-> "running", phase |-> "parsing",
                                            total_rows |-> total, processed_rows |-> 0,
                                            inserted |-> 0, skipped |-> 0,
                                            started_at |-> now, ended_at |-> NoTime,
                                            error |-> NoError, encoding |-> enc]) @@ JOBS
                     /\ th' = (job_id :> [pc |-> "start", temp_name |-> target_name,
                                          backup_name |-> target_name, batch |-> <<>>,
                                          pos |-> 0,
                                          inserted |-> 0, skipped |-> 0, processed |-> 0]) @@ th
                     /\ last' = Logged(form, header, encoding, TRUE, decodes, 200, job_id)
             /\ UNCHANGED <<now, colls, pre_swap, faults, env, view>>

\* the clock advances by a second; the advance is observed where a worker
\* is about to read the clock for its collection names (lines 706-707)
Tick ==
    /\ now < MaxTime
    /\ \E job_id \in DOMAIN th : th[job_id].pc = "start"
    /\ now' = now + 1
    /\ UNCHANGED <<colls, JOBS, tmpfs, th, sent, pre_swap, faults, env, last, view>>

(* ------------------------------ the store ----------------------------- *)
\* a blind insert in place of the upsert
insert_blind(coll, doc) == coll (+) SetToBag({doc})

\* UpdateOne(filter = the 4 fields, {"$setOnInsert": doc}, upsert=True):
\* inserts doc when no stored document matches the filter
upsert(coll, doc) ==
    IF BagIn(doc, coll) THEN coll ELSE coll (+) SetToBag({doc})

\* a bulk write that reports every operation of the batch as an insert
RECURSIVE bulk_apply(_, _)
bulk_apply(coll, batch) ==
    IF batch = <<>> THEN coll
    ELSE bulk_apply(IF BagIn(Head(batch), coll) THEN coll
                    ELSE coll (+) SetToBag({Head(batch)}), Tail(batch))

bulk_write_counts_all(coll, batch) ==
    [coll |-> bulk_apply(coll, batch), upserted |-> Len(batch)]

\* Collection.bulk_write(batch, ordered=False) that succeeds: the collection
\* afterwards and len(res.upserted_ids)
RECURSIVE bulk_write(_, _)
bulk_write(coll, batch) ==
    IF batch = <<>> THEN [coll |-> coll, upserted |-> 0]
    ELSE LET c1   == upsert(coll, Head(batch))
             rest == bulk_write(c1, Tail(batch))
         IN  [coll |-> rest.coll,
              upserted |-> rest.upserted + (IF c1 = coll THEN 0 ELSE 1)]

\* the operations of batch at the positions of keep, in order
RECURSIVE pick(_, _, _)
pick(batch, keep, i) ==
    IF i > Len(batch) THEN <<>>
    ELSE (IF i \in keep THEN <<batch[i]>> ELSE <<>>) \o pick(batch, keep, i + 1)

\* a failed write after which the staging collection is dropped
bulk_write_failed_drops(db, name, batch, keep) ==
    [n \in DOMAIN db \ {name} |-> db[n]]

\* Collection.bulk_write(batch, ordered=False) that raises BulkWriteError: the
\* operations at the positions keep were applied, the others were not; the
\* database afterwards
bulk_write_failed(db, name, batch, keep) ==
    IF keep = {} THEN db
    ELSE (name :> bulk_write(IF name \in DOMAIN db THEN db[name] ELSE EmptyBag,
                             pick(batch, keep, 1)).coll) @@ db

\* a unique index on the 4 fields can be built only without duplicates
unique_ok(coll) == \A d \in BagToSet(coll) : CopiesIn(d, coll) = 1

\* Collection.rename(new_name, dropTarget=True) on an existing collection
rename(db, old_name, new_name) ==
    [n \in (DOMAIN db \ {old_name}) \cup {new_name} |->
        IF n = new_name THEN db[old_name] ELSE db[n]]

(* --------------------------- _run_replace_job ------------------------- *)
\* finally (lines 786-790): os.remove(path)
os_remove(fs, path) == [p \in DOMAIN fs \ {path} |-> fs[p]]

\* an error handler after which the worker goes on where it was
raise_and_retry(job_id, t, msg) ==
    /\ JOBS' = _update_job(JOBS, job_id,
                   [status |-> "error", phase |-> "error", error |-> msg, ended_at |-> now])
    /\ th' = [th EXCEPT ![job_id] = [t EXCEPT !.batch = th[job_id].batch]]
    /\ tmpfs' = tmpfs

\* an except clause that records the error and leaves the phase as it was
raise_phase_kept(job_id, t, msg) ==
    /\ JOBS' = _update_job(JOBS, job_id,
                   [status |-> "error", error |-> msg, ended_at |-> now])
    /\ th' = [th EXCEPT ![job_id] = [t EXCEPT !.pc = "exit"]]
    /\ tmpfs' = os_remove(tmpfs, job_id)

\* except Exception as e (line 785), followed by the finally block; the
\* thread ends
raise(job_id, t, msg) ==
    /\ JOBS' = _update_job(JOBS, job_id,
                   [status |-> "error", phase |-> "error", error |-> msg, ended_at |-> now])
    /\ th' = [th EXCEPT ![job_id] = [t EXCEPT !.pc = "exit"]]
    /\ tmpfs' = os_remove(tmpfs, job_id)

\* lines 704-715: the names of the staging and backup collections, phase loading
begin_job(job_id) ==
    /\ job_id \in DOMAIN th /\ th[job_id].pc = "start"
    /\ th' = [th EXCEPT ![job_id].pc = "open",
                        ![job_id].temp_name = temp_name_of(now, job_id),
                        ![job_id].backup_name = backup_name_of(now)]
    /\ JOBS' = _update_job(JOBS, job_id, [phase |-> "loading"])
    /\ UNCHANGED <<now, colls, tmpfs, sent, pre_swap, faults, env, last, view>>

\* a header check that accepts a file with any one of the required names
headers_any(norm_set) == REQUIRED_HEADERS \cap norm_set # {}

\* line 721: REQUIRED_HEADERS.issubset(norm_set)
headers_ok(norm_set) == REQUIRED_HEADERS \subseteq norm_set

\* lines 717-722: open the file and check its header line
open_file(job_id) ==
    /\ job_id \in DOMAIN th /\ th[job_id].pc = "open"
    /\ LET fmap     == _normalize_headers_map(tmpfs[job_id].fieldnames)
           norm_set == Range(fmap)
       IN  IF headers_ok(norm_set)
           THEN /\ th' = [th EXCEPT ![job_id].pc = "rows"]
                /\ JOBS' = JOBS
                /\ tmpfs' = tmpfs
           ELSE raise(job_id, th[job_id], HeaderMismatch(norm_set))
    /\ UNCHANGED <<now, colls, sent, pre_swap, faults, env, last, view>>

\* a counter that counts the stored rows only
count_row_if_stored(processed, skip) == IF skip THEN processed ELSE processed + 1

\* line 756: processed += 1, for a skipped row as for a stored one
count_row(processed, skip) == processed + 1

\* lines 730-757: one iteration of the row loop; the batch is written when it
\* is full, and the write either succeeds or is rejected by the store after
\* any part of it was applied
process_row(job_id) ==
    /\ job_id \in DOMAIN th /\ th[job_id].pc = "rows"
    /\ th[job_id].pos < Len(tmpfs[job_id].rows)
    /\ LET t     == [th[job_id] EXCEPT !.pos = @ + 1]
           file  == tmpfs[job_id]
           row   == file.rows[t.pos]
           doc   == row_table[file.fieldnames, row].doc
           skip  == is_skipped(doc)
           batch == IF skip THEN t.batch ELSE Append(t.batch, doc)
           full  == ~skip /\ Len(batch) >= batch_size
       IN  IF row_table[file.fieldnames, row].none
           THEN /\ raise(job_id, t, str_e("AttributeError"))
                /\ colls' = colls
                /\ store_returns
           ELSE IF ~full
           THEN /\ th' = [th EXCEPT ![job_id] =
                            [t EXCEPT !.batch = batch,
                                      !.skipped = t.skipped + (IF skip THEN 1 ELSE 0),
                                      !.processed = count_row(t.processed, skip)]]
                /\ JOBS' = _update_job(JOBS, job_id,
                              [processed_rows |-> count_row(t.processed, skip),
                               inserted |-> t.inserted,
                               skipped |-> t.skipped + (IF skip THEN 1 ELSE 0)])
                /\ tmpfs' = tmpfs
                /\ colls' = colls
                /\ store_returns
           ELSE \/ LET res == bulk_write(docs_of(t.temp_name), batch)
                   IN  /\ colls' = (t.temp_name :> res.coll) @@ colls
                       /\ th' = [th EXCEPT ![job_id] =
                                   [t EXCEPT !.batch = <<>>,
                                             !.inserted = t.inserted + res.upserted,
                                             !.processed = count_row(t.processed, skip)]]
                       /\ JOBS' = _update_job(JOBS, job_id,
                                     [processed_rows |-> count_row(t.processed, skip),
                                      inserted |-> t.inserted + res.upserted,
                                      skipped |-> t.skipped])
                       /\ tmpfs' = tmpfs
                       /\ store_returns
                \/ \E keep \in (SUBSET (1..Len(batch))) \ {1..Len(batch)} :
                     /\ colls' = bulk_write_failed(colls, t.temp_name, batch, keep)
                     /\ raise(job_id, [t EXCEPT !.batch = batch], str_e("BulkWriteError"))
                     /\ store_raises
    /\ UNCHANGED <<now, sent, pre_swap, env, last, view>>

\* lines 759-766: the last, partial batch, then phase indexing
final_flush(job_id) ==
    /\ job_id \in DOMAIN th /\ th[job_id].pc = "rows"
    /\ th[job_id].pos = Len(tmpfs[job_id].rows)
    /\ LET t == th[job_id]
       IN  IF t.batch = <<>>
           THEN /\ th' = [th EXCEPT ![job_id].pc = "index"]
                /\ JOBS' = _update_job(JOBS, job_id, [phase |-> "indexing"])
                /\ tmpfs' = tmpfs
                /\ colls' = colls
                /\ store_returns
           ELSE \/ LET res == bulk_write(docs_of(t.temp_name), t.batch)
                   IN  /\ colls' = (t.temp_name :> res.coll) @@ colls
                       /\ th' = [th EXCEPT ![job_id] =
                                   [t EXCEPT !.batch = <<>>, !.pc = "index",
                                             !.inserted = t.inserted + res.upserted]]
                       /\ JOBS' = _update_job(JOBS, job_id,
                                     [inserted |-> t.inserted + res.upserted,
                                      phase |-> "indexing"])
                       /\ tmpfs' = tmpfs
                       /\ store_returns
                \/ \E keep \in (SUBSET (1..Len(t.batch))) \ {1..Len(t.batch)} :
                     /\ colls' = bulk_write_failed(colls, t.temp_name, t.batch, keep)
                     /\ raise(job_id, t, str_e("BulkWriteError"))
                     /\ store_raises
    /\ UNCHANGED <<now, sent, pre_swap, env, last, view>>

\* a failed index build that takes the staging collection away
index_failed_drops(db, name, made) == [n \in DOMAIN db \ {name} |-> db[n]]

\* lines 767-773: the store after a create_index call raised: as it was, or
\* (made) with the collection created by an earlier call of the three
index_failed(db, name, made) ==
    IF made /\ name \notin DOMAIN db THEN (name :> EmptyBag) @@ db ELSE db

\* lines 767-776: the three indexes on the staging collection (the first one
\* creates the collection when nothing was written to it), then phase swapping
create_indexes(job_id) ==
    /\ job_id \in DOMAIN th /\ th[job_id].pc = "index"
    /\ LET t == th[job_id]
       IN  \/ /\ unique_ok(docs_of(t.temp_name))
              /\ colls' = (t.temp_name :> docs_of(t.temp_name)) @@ colls
              /\ th' = [th EXCEPT ![job_id].pc = "swap"]
              /\ JOBS' = _update_job(JOBS, job_id, [phase |-> "swapping"])
              /\ tmpfs' = tmpfs
              /\ store_returns
           \/ /\ \E made \in BOOLEAN :
                    /\ made => unique_ok(docs_of(t.temp_name))
                    /\ colls' = index_failed(colls, t.temp_name, made)
              /\ raise(job_id, t, str_e("OperationFailure"))
              /\ store_raises
    /\ UNCHANGED <<now, sent, pre_swap, env, last, view>>

\* lines 777-780: active -> backup; any failure is swallowed
rename_to_backup(job_id) ==
    /\ job_id \in DOMAIN th /\ th[job_id].pc = "swap"
    /\ \/ /\ target_name \in DOMAIN colls
          /\ colls' = rename(colls, target_name, th[job_id].backup_name)
          /\ store_returns
       \/ /\ colls' = colls
          /\ IF target_name \in DOMAIN colls THEN store_raises ELSE store_returns
    /\ th' = [th EXCEPT ![job_id].pc = "promote"]
    /\ pre_swap' = (job_id :> [existed |-> target_name \in DOMAIN colls,
                               docs |-> docs_of(target_name),
                               moved |-> colls' # colls]) @@ pre_swap
    /\ UNCHANGED <<now, JOBS, tmpfs, sent, env, last, view>>

\* line 781: staging -> active
rename_to_target(job_id) ==
    /\ job_id \in DOMAIN th /\ th[job_id].pc = "promote"
    /\ LET t == th[job_id]
       IN  \/ /\ t.temp_name \in DOMAIN colls
              /\ colls' = rename(colls, t.temp_name, target_name)
              /\ th' = [th EXCEPT ![job_id].pc = "mark"]
              /\ JOBS' = JOBS
              /\ tmpfs' = tmpfs
              /\ store_returns
           \/ /\ colls' = colls
              /\ raise(job_id, t, str_e("OperationFailure"))
              /\ IF t.temp_name \in DOMAIN colls THEN store_raises ELSE store_returns
    /\ UNCHANGED <<now, sent, pre_swap, env, last, view>>

\* a worker that ends without the final update of its job
mark_done_forgotten(job_id) ==
    /\ job_id \in DOMAIN th /\ th[job_id].pc = "mark"
    /\ th' = [th EXCEPT ![job_id].pc = "exit"]
    /\ tmpfs' = os_remove(tmpfs, job_id)
    /\ UNCHANGED <<now, colls, JOBS, sent, pre_swap, faults, env, last, view>>

\* line 783, followed by the finally block; the thread ends
mark_done(job_id) ==
    /\ job_id \in DOMAIN th /\ th[job_id].pc = "mark"
    /\ JOBS' = _update_job(JOBS, job_id,
                   [status |-> "done", phase |-> "done", ended_at |-> now])
    /\ th' = [th EXCEPT ![job_id].pc = "exit"]
    /\ tmpfs' = os_remove(tmpfs, job_id)
    /\ UNCHANGED <<now, colls, sent, pre_swap, faults, env, last, view>>

\* the worker thread of a job: the steps of _run_replace_job
_run_replace_job(job_id) ==
    \/ begin_job(job_id)
    \/ open_file(job_id)
    \/ process_row(job_id)
    \/ final_flush(job_id)
    \/ create_indexes(job_id)
    \/ rename_to_backup(job_id)
    \/ rename_to_target(job_id)
    \/ mark_done(job_id)

(* ---------------------------- admin_job_status ------------------------ *)
max(a, b) == IF a >= b THEN a ELSE b

\* line 430: elapsed = time.time() - job["started_at"] if job["started_at"]
\* else 0 (a start time that was set is truthy: the wall clock is not at 0)
elapsed_of(job, t) == IF job.started_at # NoTime THEN t - job.started_at ELSE 0

\* line 432: the divisor of rate = processed / max(1, elapsed)
rate_divisor(job, t) == max(1, elapsed_of(job, t))

\* line 434: the divisor of remaining / rate, as the fraction's numerator:
\* rate = processed / max(1, elapsed) with processed = max(1, processed_rows)
eta_divisor(job, t) == max(1, job.processed_rows)

\* admin_job_status of a job that exists, polled at time t: the derived fields
\* of the response. remaining / rate is remaining * max(1, elapsed) / processed;
\* int() cuts the fraction of the non-negative quotient
admin_job_status(job, t) ==
    LET elapsed   == elapsed_of(job, t)
        processed == max(1, job.processed_rows)
        remaining == max(0, job.total_rows - processed)
    IN  [elapsed_secs |-> elapsed,
         eta_secs     |-> (remaining * rate_divisor(job, t)) \div eta_divisor(job, t)]

Next ==
    \/ \E file \in UploadMenu : admin_upload_start(Secret, NoneVal, "None", file, D_ascii)
    \/ Tick
    \/ \E job_id \in JobIds : begin_job(job_id)
    \/ \E job_id \in JobIds : open_file(job_id)
    \/ \E job_id \in JobIds : process_row(job_id)
    \/ \E job_id \in JobIds : final_flush(job_id)
    \/ \E job_id \in JobIds : create_indexes(job_id)
    \/ \E job_id \in JobIds : rename_to_backup(job_id)
    \/ \E job_id \in JobIds : rename_to_target(job_id)
    \/ \E job_id \in JobIds : mark_done(job_id)

Spec == Init /\ [][Next]_vars

(* ------------------- the ingestion-start endpoint --------------------- *)
\* the process under each configuration of ADMIN_TOKEN and of the store
\* connection
StartInit ==
    /\ now = 0
    /\ colls = (target_name :> OldData)
    /\ JOBS = << >>
    /\ tmpfs = << >>
    /\ th = << >>
    /\ sent = << >>
    /\ pre_swap = << >>
    /\ faults = 0
    /\ env \in [ADMIN_TOKEN : AdminTokens, connected : BOOLEAN]
    /\ last = Logged(NoneVal, NoneVal, "None", FALSE, D_ascii, 0, 0)
    /\ view = [pc |-> "idle"]

\* the file part of the next request: none, or the next of the one-row files
StartFiles == {NoFile, ConcurrentFile(Cardinality(DOMAIN JOBS \cup DOMAIN tmpfs) + 1)}

\* the requests to the endpoint, with every token, encoding, file and byte
\* content; the behaviours are those in which the worker threads the
\* requests start have not been scheduled yet
StartNext ==
    \E form \in FormTokens, header \in HeaderTokens, encoding \in FormEncodings,
       file \in StartFiles, decodes \in Decodings :
         admin_upload_start(form, header, encoding, file, decodes)

StartSpec == StartInit /\ [][StartNext]_vars

\* threading.Thread(...).start(): every started worker thread is scheduled
\* again and again until it ends
FairSpec == Spec /\ \A job_id \in JobIds : WF_vars(_run_replace_job(job_id))

(* ---------------------------- admin_summary --------------------------- *)
\* characters of identifiers and of the q parameter, in code point order
\* ('.' 46, digits from 48, letters from 65)
Alphabet == <<".", "0", "1", "2", "A", "B", "O">>
code_point(c) == CHOOSE i \in 1..Len(Alphabet) : Alphabet[i] = c

\* string comparison of the $sort stage: by code point, a proper prefix first
RECURSIVE str_lt(_, _)
str_lt(a, b) ==
    IF b = <<>> THEN FALSE
    ELSE IF a = <<>> THEN TRUE
    ELSE IF a[1] # b[1] THEN code_point(a[1]) < code_point(b[1])
    ELSE str_lt(Tail(a), Tail(b))

\* {"$regex": f"^{q}"}: q is the pattern text itself (it is not escaped), so
\* "." stands for any one character and every other character of the
\* alphabet for itself
RECURSIVE regex_match(_, _)
regex_match(s, q) ==
    IF q = <<>> THEN TRUE
    ELSE IF s = <<>> THEN FALSE
    ELSE (q[1] = "." \/ q[1] = s[1]) /\ regex_match(Tail(s), Tail(q))

\* uid_filter: {} when q is empty, the anchored pattern otherwise
uid_match(s, q) == q = <<>> \/ regex_match(s, q)

\* int() of a query parameter: digits give their number, any other text
\* raises ValueError (NotInt)
Digits == <<"0", "1", "2", "3", "4", "5", "6", "7", "8", "9">>
is_digits(s) == s # <<>> /\ \A i \in 1..Len(s) : \E d \in 1..Len(Digits) : Digits[d] = s[i]
digit(c) == (CHOOSE d \in 1..Len(Digits) : Digits[d] = c) - 1
RECURSIVE to_int(_)
to_int(s) == IF s = <<>> THEN 0 ELSE 10 * to_int(SubSeq(s, 1, Len(s) - 1)) + digit(s[Len(s)])

min(a, b) == IF a <= b THEN a ELSE b
limit_default == 100
limit_cap == 1000

\* page = max(int(args.get("page", 1)), 1), 1 on any exception
page_of(arg) ==
    IF arg = NoneVal THEN 1 ELSE IF is_digits(arg) THEN max(to_int(arg), 1) ELSE 1

\* limit = min(max(int(args.get("limit", 100)), 1), 1000), 100 on any exception
limit_of(arg) ==
    IF arg = NoneVal THEN limit_default
    ELSE IF is_digits(arg) THEN min(max(to_int(arg), 1), limit_cap) ELSE limit_default

\* q = (args.get("q") or "").strip().upper()
q_of(arg) == upper(strip(or_else(arg, <<>>)))

\* $group by unique_id: the distinct identifiers of the matching documents
distinct_ids(coll, q) == {d.unique_id : d \in {x \in BagToSet(coll) : uid_match(x.unique_id, q)}}

\* $sort {_id: 1}
RECURSIVE sorted(_)
sorted(S) ==
    IF S = {} THEN <<>>
    ELSE LET lo == CHOOSE x \in S : \A y \in S \ {x} : str_lt(x, y)
         IN  <<lo>> \o sorted(S \ {lo})

\* $skip, $limit
skip_limit(ids, skip, limit) == SubSeq(ids, skip + 1, min(Len(ids), skip + limit))

\* the count pipeline: $group, $count; no document comes back when nothing
\* matches, and the caller's default is used
count_ids(coll, q, default) ==
    IF distinct_ids(coll, q) = {} THEN default ELSE Cardinality(distinct_ids(coll, q))
NoCount == -1

\* the dates of the event as the store holds them, and a date outside it
D19 == <<"2025.09.19">>
D20 == <<"2025.09.20">>
D21 == <<"2025.09.21">>
D22 == <<"2025.09.22">>
D23 == <<"2025.09.23">>
D24 == <<"2025.09.24">>
D25 == <<"2025.09.25">>
D26 == <<"2025.09.26">>

\* $split of the padded time at ":": the text before the first ":" and the
\* text between the first and the second, "0" when there is no second part
colon(s) == IF \E i \in 1..Len(s) : s[i] = ":"
            THEN CHOOSE i \in 1..Len(s) : s[i] = ":" /\ \A k \in 1..(i - 1) : s[k] # ":"
            ELSE Len(s) + 1
part0(s) == SubSeq(s, 1, colon(s) - 1)
part1(s) == IF colon(s) > Len(s) THEN <<"0">>
            ELSE part0(SubSeq(s, colon(s) + 1, Len(s)))

\* $toInt of the part when it matches ^\d+$, of "0" otherwise
digits_or_zero(s) == IF is_digits(s) THEN to_int(s) ELSE 0

\* _padded_time: "0" is put before a time of fewer than 5 characters
padded_time(t) == IF Len(t) < 5 THEN <<"0">> \o t ELSE t

\* a minute of day that leaves the hours out
minOfDay_minutes_only(t) == digits_or_zero(part1(padded_time(t)))

\* minOfDay = hours * 60 + minutes of the padded time
minOfDay(t) == digits_or_zero(part0(padded_time(t))) * 60 + digits_or_zero(part1(padded_time(t)))

first_session_end == 599
live_start == 720

\* $sum of $cond over the documents of one identifier: the number of its
\* documents, copies counted, that are among those of the set hit
count_where(coll, uid, hit) ==
    BagCardinality([d \in {x \in BagToSet(coll) : x.unique_id = uid /\ x \in hit} |-> coll[d]])

\* the documents of a day, of its first session and of its live session
on_day(coll, day) == {d \in BagToSet(coll) : d.date = day}
in_first(coll) == {d \in on_day(coll, D25) : minOfDay(d.time) <= first_session_end}
in_live(coll)  == {d \in on_day(coll, D25) : minOfDay(d.time) >= live_start}

\* the $group and $project stages for one identifier, then pre_total and
\* perfect as the handler adds them
summary_row(coll, uid) ==
    LET c19 == count_where(coll, uid, on_day(coll, D19))
        c20 == count_where(coll, uid, on_day(coll, D20))
        c21 == count_where(coll, uid, on_day(coll, D21))
        c22 == count_where(coll, uid, on_day(coll, D22))
        c23 == count_where(coll, uid, on_day(coll, D23))
        c24 == count_where(coll, uid, on_day(coll, D24))
        c25_first == count_where(coll, uid, in_first(coll))
        c_live    == count_where(coll, uid, in_live(coll))
    IN  [unique_id |-> uid,
         c19 |-> c19, c20 |-> c20, c21 |-> c21, c22 |-> c22, c23 |-> c23, c24 |-> c24,
         c25_first |-> c25_first, c_live |-> c_live,
         pre_total |-> c19 + c20 + c21 + c22 + c23 + c24 + c25_first,
         perfect   |-> /\ c19 > 0 /\ c20 > 0 /\ c21 > 0 /\ c22 > 0
                       /\ c23 > 0 /\ c24 > 0 /\ c25_first > 0]

\* step 2: $match unique_id $in page_ids, one row for each identifier that
\* has documents, put in the order of page_ids
RECURSIVE aggregate(_, _)
aggregate(coll, page_ids) ==
    IF page_ids = <<>> THEN <<>>
    ELSE (IF \E d \in BagToSet(coll) : d.unique_id = page_ids[1]
          THEN <<summary_row(coll, page_ids[1])>> ELSE <<>>)
         \o aggregate(coll, Tail(page_ids))

\* times of day as the store holds them: 9:39 (first session, stored without
\* the leading zero), 10:00 (after the first session), 12:00 (live)
T_0939 == <<"9", ":", "3", "9">>
T_1000 == <<"1", "0", ":", "0", "0">>
T_1200 == <<"1", "2", ":", "0", "0">>

A1 == <<"A", "1">>
A2 == <<"A", "2">>
B1 == <<"B", "1">>
record(uid, date, time) == [unique_id |-> uid, date |-> date, time |-> time, serial |-> F_SERIAL]

\* active datasets: none, two identifiers of which one has two records,
\* three identifiers, and one identifier present on every day
DS_empty == EmptyBag
DS_two   == SetToBag({record(A1, D19, T_1000), record(A1, D20, T_1000), record(B1, D25, T_0939)})
DS_three == SetToBag({record(A1, D25, T_1200), record(A2, D25, T_1000), record(A2, D26, T_0939),
                      record(B1, D19, T_1000)}) (+) SetToBag({record(B1, D19, T_1000)})
DS_full  == SetToBag({record(A1, D19, T_1000), record(A1, D20, T_1000), record(A1, D21, T_1000),
                      record(A1, D22, T_1000), record(A1, D23, T_1000), record(A1, D24, T_1000),
                      record(A1, D25, T_0939)})
Datasets == {DS_empty, DS_two, DS_three, DS_full}

\* the query parameters of a request: absent, numbers, text that is no number
PageArgs  == {NoneVal, <<"0">>, <<"1">>, <<"2">>, <<"3">>, <<"x">>}
LimitArgs == {NoneVal, <<"0">>, <<"1">>, <<"2">>, <<"x">>}
QArgs     == {NoneVal, <<"a">>, <<SP, "b">>, <<"A", "2">>, <<".">>}

\* the handler up to the first query (step 1): token and connection checks,
\* page, limit and q, then the identifiers of the page (read: history, the
\* contents of the active collection as each query of the request found it)
summary_ids(token, header, page_arg, limit_arg, q_arg) ==
    LET tok   == strip(or_else(or_else(token, header), <<>>))
        page  == page_of(page_arg)
        limit == limit_of(limit_arg)
        q     == q_of(q_arg)
        coll  == docs_of(target_name)
    IN  /\ view.pc \in {"idle", "done", "exported"}
        /\ view' = IF tok # env.ADMIN_TOKEN THEN [pc |-> "done", code |-> 401]
                   ELSE IF ~env.connected THEN [pc |-> "done", code |-> 500]
                   ELSE [pc |-> "ids", page |-> page, limit |-> limit, q |-> q,
                         page_ids |-> skip_limit(sorted(distinct_ids(coll, q)),
                                                 (page - 1) * limit, limit),
                         read |-> <<coll>>]
        /\ UNCHANGED <<now, colls, JOBS, tmpfs, th, sent, pre_swap, faults, env, last>>

\* the count query; with no identifier on the page it is the last query and
\* the response has no rows
summary_count ==
    LET coll == docs_of(target_name)
    IN  /\ view.pc = "ids"
        /\ view' = IF view.page_ids = <<>>
                   THEN [pc |-> "done", code |-> 200, page |-> view.page, limit |-> view.limit,
                         q |-> view.q, count |-> 0,
                         total_unique |-> count_ids(coll, view.q, 0), rows |-> <<>>,
                         page_ids |-> view.page_ids, read |-> Append(view.read, coll)]
                   ELSE [pc |-> "agg", page |-> view.page, limit |-> view.limit, q |-> view.q,
                         page_ids |-> view.page_ids,
                         total_unique |-> count_ids(coll, view.q, NoCount),
                         read |-> Append(view.read, coll)]
        /\ UNCHANGED <<now, colls, JOBS, tmpfs, th, sent, pre_swap, faults, env, last>>

\* step 2 and the response
summary_aggregate ==
    LET rows == aggregate(docs_of(target_name), view.page_ids)
    IN  /\ view.pc = "agg"
        /\ view' = [pc |-> "done", code |-> 200, page |-> view.page, limit |-> view.limit,
                    q |-> view.q, count |-> Len(rows),
                    total_unique |-> view.total_unique, rows |-> rows,
                    page_ids |-> view.page_ids,
                    read |-> Append(view.read, docs_of(target_name))]
        /\ UNCHANGED <<now, colls, JOBS, tmpfs, th, sent, pre_swap, faults, env, last>>

\* the three queries of one request, in program order
admin_summary ==
    \/ \E token \in FormTokens, header \in HeaderTokens,
          page_arg \in PageArgs, limit_arg \in LimitArgs, q_arg \in QArgs :
            summary_ids(token, header, page_arg, limit_arg, q_arg)
    \/ summary_count
    \/ summary_aggregate

\* the store with a fixed active dataset, under each state of the connection
SummaryInit ==
    /\ now = 0
    /\ colls \in {(target_name :> ds) : ds \in Datasets}
    /\ JOBS = << >>
    /\ tmpfs = << >>
    /\ th = << >>
    /\ sent = << >>
    /\ pre_swap = << >>
    /\ faults = 0
    /\ env \in [ADMIN_TOKEN : {Secret}, connected : BOOLEAN]
    /\ last = Logged(NoneVal, NoneVal, "None", FALSE, D_ascii, 0, 0)
    /\ view = [pc |-> "idle"]

SummaryNext == admin_summary

SummarySpec == SummaryInit /\ [][SummaryNext]_vars

(* ------------------------ admin_summary_export ------------------------ *)
\* the number of identifiers aggregated at a time (1000 in the source)
export_batch_size == 2

\* the header line of the export
export_header ==
    <<"unique_id", "c19", "c20", "c21", "c22", "c23", "c24",
      "c25_first", "c_live", "pre_total", "perfect">>

\* the fields of one line of the export: the counts of the row, pre_total
\* and "O" or "X" for perfect
export_line(r) ==
    <<r.unique_id, r.c19, r.c20, r.c21, r.c22, r.c23, r.c24,
      r.c25_first, r.c_live, r.pre_total, IF r.perfect THEN "O" ELSE "X">>

\* gen_rows_for_ids: the aggregation over the identifiers of a batch, sorted
\* by unique_id, one line for each row
gen_rows_for_ids(coll, id_batch) ==
    LET rows == aggregate(coll, sorted({id_batch[i] : i \in 1..Len(id_batch)}))
    IN  [i \in 1..Len(rows) |-> export_line(rows[i])]

\* a loop that aggregates full batches only
next_batch_full_only(cursor) ==
    IF Len(cursor) >= export_batch_size THEN SubSeq(cursor, 1, export_batch_size) ELSE <<>>

\* the identifiers the loop of generate() collects before it aggregates: a
\* full batch, or what is left of the cursor
next_batch(cursor) == SubSeq(cursor, 1, min(Len(cursor), export_batch_size))

\* the handler up to the response: token and connection checks, q, the
\* cursor over the sorted distinct identifiers; the header line is sent
export_start(token, header, q_arg) ==
    LET tok == strip(or_else(or_else(token, header), <<>>))
        q   == q_of(q_arg)
    IN  /\ view.pc \in {"idle", "done", "exported"}
        /\ view' = IF tok # env.ADMIN_TOKEN THEN [pc |-> "done", code |-> 401]
                   ELSE IF ~env.connected THEN [pc |-> "done", code |-> 500]
                   ELSE [pc |-> "stream", code |-> 200, q |-> q,
                         id_cursor |-> sorted(distinct_ids(docs_of(target_name), q)),
                         out |-> <<export_header>>, batches |-> 0]
        /\ UNCHANGED <<now, colls, JOBS, tmpfs, th, sent, pre_swap, faults, env, last>>

\* one batch of generate(): its identifiers are taken from the cursor and
\* the lines of their rows are sent (batches: history, the batches so far)
export_batch ==
    /\ view.pc = "stream" /\ view.id_cursor # <<>>
    /\ view' = [view EXCEPT
                  !.id_cursor = SubSeq(@, min(Len(@), export_batch_size) + 1, Len(@)),
                  !.out = @ \o gen_rows_for_ids(docs_of(target_name), next_batch(view.id_cursor)),
                  !.batches = @ + 1]
    /\ UNCHANGED <<now, colls, JOBS, tmpfs, th, sent, pre_swap, faults, env, last>>

\* the cursor is exhausted: the stream ends
export_end ==
    /\ view.pc = "stream" /\ view.id_cursor = <<>>
    /\ view' = [pc |-> "exported", code |-> 200, q |-> view.q, out |-> view.out,
                batches |-> view.batches]
    /\ UNCHANGED <<now, colls, JOBS, tmpfs, th, sent, pre_swap, faults, env, last>>

admin_summary_export ==
    \/ \E token \in FormTokens, header \in HeaderTokens, q_arg \in QArgs :
          export_start(token, header, q_arg)
    \/ export_batch
    \/ export_end

\* the export and the summary over a fixed active dataset
ExportNext ==
    \/ admin_summary_export
    \/ \E page_arg \in PageArgs, limit_arg \in LimitArgs, q_arg \in QArgs :
          summary_ids(Secret, NoneVal, page_arg, limit_arg, q_arg)
    \/ summary_count
    \/ summary_aggregate

ExportSpec == SummaryInit /\ [][ExportNext]_vars

(* ------------------------ times of the final day ---------------------- *)
\* the clock times a record can carry: every hour, minutes 00, 05, 39, 59
Clocks == [h : 0..23, m : {0, 5, 39, 59}]

\* a number below 100 in two digits
two_digits(n) == <<Digits[(n \div 10) + 1], Digits[(n % 10) + 1]>>

\* the text of a clock time as the csv carries it: HH:MM, or H:MM when the
\* hour has one digit and the leading zero is left out
time_text(c, lead) ==
    (IF c.h < 10 /\ ~lead THEN <<Digits[c.h + 1]>> ELSE two_digits(c.h)) \o <<":">> \o two_digits(c.m)
Times == {time_text(c, lead) : c \in Clocks, lead \in BOOLEAN}

\* the store holding one record of the final day, at each of the times
BucketInit ==
    /\ now = 0
    /\ colls \in {(target_name :> SetToBag({record(A1, D25, t)})) : t \in Times}
    /\ JOBS = << >>
    /\ tmpfs = << >>
    /\ th = << >>
    /\ sent = << >>
    /\ pre_swap = << >>
    /\ faults = 0
    /\ env = [ADMIN_TOKEN |-> Secret, connected |-> TRUE]
    /\ last = Logged(NoneVal, NoneVal, "None", FALSE, D_ascii, 0, 0)
    /\ view = [pc |-> "idle"]

\* one summary request for the first page, without filter
BucketNext ==
    \/ summary_ids(Secret, NoneVal, NoneVal, NoneVal, NoneVal)
    \/ summary_count
    \/ summary_aggregate

BucketSpec == BucketInit /\ [][BucketNext]_vars

(* ------------------ summary requests during ingestion ----------------- *)
\* ingestion runs as in Spec while summary requests for the first page,
\* without filter, are served
SwapNext ==
    \/ Next
    \/ summary_ids(Secret, NoneVal, NoneVal, NoneVal, NoneVal)
    \/ summary_count
    \/ summary_aggregate

SwapSpec == Init /\ [][SwapNext]_vars

Running(j) == j \in DOMAIN th /\ th[j].pc \in {"open", "rows", "index", "swap", "promote"}
LoadFinished(j) ==
    j \in DOMAIN th /\ (th[j].pc \in {"index", "swap", "promote", "mark"} \/ JOBS[j].status = "done")
IsBackup(name) == name[1] = "bak"
IsStaging(name) == name[1] = "tmp"

(* -------------------------------- C1 ---------------------------------- *)
\* C1: once a collection exists under the active name, one exists under it
\* in every later state of every ingestion run: no step of a job takes the
\* active collection away from a reader.
C1_ActiveNeverMissing ==
    [][(target_name \in DOMAIN colls) => (target_name \in DOMAIN colls')]_vars

(* -------------------------------- C2 ---------------------------------- *)
\* C2: whenever the active collection exists it holds a complete dataset: the
\* dataset the process started with or exactly the records of one file whose
\* load has finished; rows are never written into it in place.
C2_ActiveIsComplete ==
    target_name \in DOMAIN colls =>
        \/ colls[target_name] = OldData
        \/ \E j \in DOMAIN th : LoadFinished(j) /\ colls[target_name] = SetToBag(sent[j].docs)

\* a finished job's file of two distinct records is the active dataset
C2_Witness ==
    \E j \in DOMAIN JOBS :
        /\ JOBS[j].status = "done"
        /\ target_name \in DOMAIN colls
        /\ colls[target_name] = SetToBag(sent[j].docs)
        /\ BagCardinality(colls[target_name]) = 2

(* -------------------------------- C3 ---------------------------------- *)
PhaseChain == <<"parsing", "loading", "indexing", "swapping", "done">>
PhaseIndex(p) == CHOOSE i \in 1..Len(PhaseChain) : PhaseChain[i] = p

\* one observable step of a phase: no change, the next phase of the chain, or
\* error from a phase that is neither done nor error
PhaseStep(p, q) ==
    \/ q = p
    \/ /\ p \notin {"done", "error"}
       /\ \/ q = "error"
          \/ q # "error" /\ PhaseIndex(q) = PhaseIndex(p) + 1

\* C3: a job starts in phase parsing and every change of its phase is the
\* next phase of parsing, loading, indexing, swapping, done, or error from a
\* phase other than done and error; done and error are never left.
C3_PhaseChain ==
    [][\A j \in DOMAIN JOBS' :
          IF j \in DOMAIN JOBS
          THEN PhaseStep(JOBS[j].phase, JOBS'[j].phase)
          ELSE JOBS'[j].phase = "parsing"]_vars

\* a job went through the whole chain while another one ended in error
C3_Witness ==
    \E j, k \in DOMAIN JOBS : JOBS[j].phase = "done" /\ JOBS[k].phase = "error"

(* -------------------------------- C4 ---------------------------------- *)
\* the valid rows of a file whose normalized 4-tuple repeats an earlier one
repeats(e) == e.valid - Cardinality(e.docs)

\* C4 as stated: at status done, processed_rows == inserted + skipped, for
\* every file, files with repeated normalized 4-tuples included.
C4_ProcessedIsInsertedPlusSkipped ==
    \A j \in DOMAIN JOBS :
        JOBS[j].status = "done" =>
            JOBS[j].processed_rows = JOBS[j].inserted + JOBS[j].skipped

\* C4 amended: at status done, processed_rows == inserted + skipped + the
\* number of valid rows whose normalized 4-tuple repeats an earlier valid
\* row; the three counters add up exactly when no tuple is repeated.
C4_ProcessedCountsRepeats ==
    \A j \in DOMAIN JOBS :
        JOBS[j].status = "done" =>
            /\ JOBS[j].processed_rows
                 = JOBS[j].inserted + JOBS[j].skipped + repeats(sent[j])
            /\ JOBS[j].processed_rows = Len(sent[j].file.rows)

\* a finished job whose file repeats a tuple and has an invalid row
C4_Witness ==
    \E j \in DOMAIN JOBS :
        /\ JOBS[j].status = "done"
        /\ repeats(sent[j]) > 0
        /\ JOBS[j].skipped > 0

(* -------------------------------- C5 ---------------------------------- *)
\* C5: in every state no staging collection holds two records with the same
\* 4-tuple, and once a job's load is over its staging collection holds
\* exactly one record per distinct normalized 4-tuple of the valid rows.
C5_StagingUnique ==
    /\ \A n \in DOMAIN colls : IsStaging(n) => unique_ok(colls[n])
    /\ \A j \in DOMAIN th :
          th[j].pc \in {"index", "swap", "promote"} =>
              docs_of(th[j].temp_name) = SetToBag(sent[j].docs)

\* three valid rows, the third repeating the first, loaded as two records
C5_Witness ==
    \E j \in DOMAIN th :
        /\ th[j].pc = "index"
        /\ sent[j].valid = 3
        /\ BagCardinality(docs_of(th[j].temp_name)) = 2

(* -------------------------------- C6 ---------------------------------- *)
\* the record that the rows R_lower and R_upper both stand for
DocA1 == [unique_id |-> <<"A", "1">>, date |-> <<"d">>, time |-> <<"t">>, serial |-> <<"s">>]

\* C6: at status done, inserted is the number of distinct normalized 4-tuples
\* of the valid rows and skipped the number of rows with an empty field;
\* two rows equal only after normalization give one stored record, inserted
\* == 1, skipped == 0; no stored record has an empty field.
C6_CountersAtDone ==
    /\ \A j \in DOMAIN JOBS :
          JOBS[j].status = "done" =>
              /\ JOBS[j].inserted = Cardinality(sent[j].docs)
              /\ JOBS[j].skipped = sent[j].invalid
              /\ sent[j].file.rows = <<R_lower, R_upper>> =>
                     JOBS[j].inserted = 1 /\ JOBS[j].skipped = 0
    /\ \A j \in DOMAIN th :
          (th[j].pc = "index" /\ sent[j].file.rows = <<R_lower, R_upper>>) =>
              docs_of(th[j].temp_name) = SetToBag({DocA1})
    /\ \A n \in DOMAIN colls : \A d \in BagToSet(colls[n]) : ~is_skipped(d)

\* the file of the two rows that differ before normalization only, loaded
C6_Witness ==
    \E j \in DOMAIN JOBS :
        /\ JOBS[j].status = "done"
        /\ sent[j].file.rows = <<R_lower, R_upper>>
        /\ JOBS[j].inserted = 1
        /\ target_name \in DOMAIN colls /\ colls[target_name] = SetToBag({DocA1})

(* -------------------------------- C7 ---------------------------------- *)
\* C7 as stated: in the step that sets a job's status to done, the active
\* collection holds exactly the normalized valid records of the job's file.
C7_ActiveIsFileAtDone ==
    [][\A j \in DOMAIN JOBS :
          (JOBS[j].status # "done" /\ JOBS'[j].status = "done") =>
              (/\ target_name \in DOMAIN colls'
               /\ colls'[target_name] = SetToBag(sent[j].docs))]_vars

(* -------------------------------- C8 ---------------------------------- *)
\* C8: when a job is done and the active collection existed when the job
\* began to swap, the collection under the job's backup name exists and
\* holds what the active collection held at that moment.
C8_BackupHoldsPrevious ==
    \A j \in DOMAIN JOBS :
        (JOBS[j].status = "done" /\ pre_swap[j].existed) =>
            /\ th[j].backup_name \in DOMAIN colls
            /\ colls[th[j].backup_name] = pre_swap[j].docs

(* -------------------------------- C9 ---------------------------------- *)
\* C9: a backup collection, once it exists, exists with the same contents in
\* the next state: no step drops, overwrites or modifies a backup.
C9_BackupsKept ==
    [][\A n \in DOMAIN colls :
          IsBackup(n) => (n \in DOMAIN colls' /\ colls'[n] = colls[n])]_vars

(* -------------------------------- C10 --------------------------------- *)
\* C10: two jobs that are running have different staging names, and every
\* record of a running job's staging collection is a normalized valid record
\* of that job's own file.
C10_StagingIsOwn ==
    /\ \A j, k \in DOMAIN th :
          (j # k /\ Running(j) /\ Running(k)) => th[j].temp_name # th[k].temp_name
    /\ \A j \in DOMAIN th :
          Running(j) => BagToSet(docs_of(th[j].temp_name)) \subseteq sent[j].docs

\* two jobs run at once, each with its own records in its staging collection
C10_Witness ==
    \E j, k \in DOMAIN th :
        /\ j # k /\ Running(j) /\ Running(k)
        /\ docs_of(th[j].temp_name) # EmptyBag
        /\ docs_of(th[k].temp_name) # EmptyBag
        /\ docs_of(th[j].temp_name) # docs_of(th[k].temp_name)

(* -------------------------------- C11 --------------------------------- *)
\* the job's batch write was rejected by the store
BatchFailed(j) == JOBS[j].error = str_e("BulkWriteError")
\* the collections of a database that are not staging collections: the active
\* one and the backups
NotStaging(db) == [n \in {m \in DOMAIN db : ~IsStaging(m)} |-> db[n]]

\* C11: in the step in which a batch write fails, the job gets status error,
\* phase error and an error message, the active and backup collections are
\* untouched and every record already in the staging collection stays; from
\* then on the worker is over, it has issued no rename, and the staging
\* collection is left as it is.
C11_BatchFailureAborts ==
    [][\A j \in DOMAIN JOBS :
          /\ (~BatchFailed(j) /\ BatchFailed(j)') =>
                /\ JOBS'[j].status = "error" /\ JOBS'[j].phase = "error"
                /\ JOBS'[j].error # NoError
                /\ NotStaging(colls') = NotStaging(colls)
                /\ docs_of(th[j].temp_name) \sqsubseteq docs_of(th[j].temp_name)'
                /\ th'[j].pc = "exit"
                /\ j \notin DOMAIN pre_swap'
          /\ BatchFailed(j) =>
                /\ th'[j].pc = "exit"
                /\ j \notin DOMAIN pre_swap'
                /\ th[j].temp_name \in DOMAIN colls =>
                      /\ th[j].temp_name \in DOMAIN colls'
                      /\ colls'[th[j].temp_name] = colls[th[j].temp_name]]_vars

\* the last batch of a job failed after an earlier batch of two records was
\* committed: the two records are in staging, the active dataset is the old one
C11_Witness ==
    \E j \in DOMAIN JOBS :
        /\ BatchFailed(j)
        /\ JOBS[j].inserted = 2
        /\ BagCardinality(docs_of(th[j].temp_name)) = 2
        /\ docs_of(target_name) = OldData
        /\ \A n \in DOMAIN colls : ~IsBackup(n)

(* -------------------------------- C12 --------------------------------- *)
\* a required header is not among the normalized headers of the file
LacksHeader(file) ==
    \E h \in REQUIRED_HEADERS :
        \A i \in 1..Len(file.fieldnames) : normalize_header(file.fieldnames[i]) # h

\* C12: a job whose file lacks a required header after normalization keeps
\* processed_rows, inserted and skipped at 0, never has a staging collection,
\* never issues a rename, and once its header line was read it is in error.
C12_HeaderMismatchFailsFast ==
    \A j \in DOMAIN JOBS :
        LacksHeader(sent[j].file) =>
            /\ JOBS[j].processed_rows = 0
            /\ JOBS[j].inserted = 0
            /\ JOBS[j].skipped = 0
            /\ \A n \in DOMAIN colls : IsStaging(n) => n[3] # j
            /\ j \notin DOMAIN pre_swap
            /\ th[j].pc \notin {"start", "open"} =>
                  (JOBS[j].status = "error" /\ JOBS[j].phase = "error" /\ th[j].pc = "exit")

\* a file with a data row whose header line names all four columns, one of
\* them not surviving normalization, ended in error
C12_Witness ==
    \E j \in DOMAIN JOBS :
        /\ sent[j].file.fieldnames = BomBlankHeader
        /\ Len(sent[j].file.rows) = 1
        /\ JOBS[j].status = "error"
        /\ JOBS[j].total_rows = 1

(* -------------------------------- C13 --------------------------------- *)
\* C13: the error message of every header mismatch recorded on a job carries
\* the set of headers found in the file and the set of required headers.
C13_MismatchNamesBothSets ==
    \A j \in DOMAIN JOBS :
        JOBS[j].error.text = "CSV header mismatch" =>
            /\ "got" \in DOMAIN JOBS[j].error
            /\ JOBS[j].error.got = Range(_normalize_headers_map(sent[j].file.fieldnames))
            /\ "required" \in DOMAIN JOBS[j].error
            /\ JOBS[j].error.required = REQUIRED_HEADERS

(* -------------------------------- C16 --------------------------------- *)
Terminal(j) == JOBS[j].status \in {"done", "error"}

\* C16: once a job's status is error or done, no field of the job changes in
\* any later step and its worker takes no further step (no retry).
C16_TerminalIsFinal ==
    [][\A j \in DOMAIN JOBS :
          Terminal(j) => (JOBS'[j] = JOBS[j] /\ th'[j] = th[j] /\ th[j].pc = "exit")]_vars

\* a job ended in error and, a second later, another job ended in done
C16_Witness ==
    \E j, k \in DOMAIN JOBS :
        /\ JOBS[j].status = "error"
        /\ JOBS[k].status = "done"
        /\ JOBS[k].ended_at > JOBS[j].ended_at

(* -------------------------------- C17 --------------------------------- *)
\* C17: with the worker threads scheduled fairly, every job that was created
\* eventually has status done or status error, whatever its file and
\* whatever the store answers: again and again a state is reached in which
\* every job created so far has ended (jobs are never removed).
C17_EveryJobEnds ==
    []<>(\A j \in DOMAIN JOBS : Terminal(j))

\* two jobs have ended, one of them done, after the store rejected a call
C17_Witness ==
    \E j, k \in DOMAIN JOBS :
        /\ j # k /\ Terminal(j) /\ Terminal(k)
        /\ JOBS[j].status = "done"
        /\ faults > 0

(* -------------------------------- C18 --------------------------------- *)
\* C18: a job's processed_rows never decreases from a state to the next;
\* the step that handles the k-th row the reader yields handles row k of the
\* file and leaves processed_rows == k.
C18_ProcessedFollowsSource ==
    [][\A j \in DOMAIN JOBS :
          /\ JOBS'[j].processed_rows >= JOBS[j].processed_rows
          /\ (th'[j].pos = th[j].pos + 1 /\ JOBS'[j].status = "running") =>
                /\ JOBS'[j].processed_rows = th'[j].pos
                /\ Len(th'[j].batch) = Len(th[j].batch) + 1 =>
                      th'[j].batch[Len(th'[j].batch)]
                        = make_doc(sent[j].file.fieldnames, sent[j].file.rows[th'[j].pos])]_vars

\* a running job has handled three rows, one of them skipped
C18_Witness ==
    \E j \in DOMAIN JOBS :
        /\ JOBS[j].status = "running"
        /\ JOBS[j].processed_rows = 3
        /\ JOBS[j].skipped = 1
        /\ th[j].pos = 3

(* -------------------------------- C19 --------------------------------- *)
\* C19: for every job state the poll's estimate is
\* remaining_rows / (processed_rows / elapsed) with remaining_rows =
\* total_rows - processed_rows and, in the rate, processed_rows and elapsed
\* replaced by 1 when below 1; no divisor is 0 and the estimate is not negative.
C19_EtaAsStated ==
    \A j \in DOMAIN JOBS :
        LET job            == JOBS[j]
            elapsed        == now - job.started_at
            remaining_rows == job.total_rows - job.processed_rows
            P == IF job.processed_rows < 1 THEN 1 ELSE job.processed_rows
            E == IF elapsed < 1 THEN 1 ELSE elapsed
        IN  /\ rate_divisor(job, now) # 0
            /\ eta_divisor(job, now) # 0
            /\ admin_job_status(job, now).eta_secs = (remaining_rows * E) \div P
            /\ admin_job_status(job, now).eta_secs >= 0

(* -------------------------------- C14 --------------------------------- *)
\* the token of a request as the handler reads it: the form field, else the
\* header, trimmed; NoneVal when the request carries neither
Presented(r) ==
    IF or_else(or_else(r.form, r.header), NoneVal) = NoneVal THEN NoneVal
    ELSE strip(or_else(r.form, r.header))

\* no encoding the handler tries (the preferred one, then the fallback list)
\* decodes the bytes of the request's file
Undecodable(r) ==
    r.decodes.whole \cap ({IF r.encoding # "None" THEN r.encoding ELSE "utf-8"} \cup Encodings) = {}

\* C14: when the last request, made with the configured token, uploaded a file
\* that no tried encoding decodes, a job exists for that upload, and once its
\* worker has ended the job has status error with an error recorded.
C14_UndecodableIsJobError ==
    (Presented(last) = env.ADMIN_TOKEN /\ Presented(last) # NoneVal /\ env.connected
       /\ last.has_file /\ Undecodable(last)) =>
        /\ last.job_id \in DOMAIN JOBS
        /\ th[last.job_id].pc = "exit" =>
              (JOBS[last.job_id].status = "error" /\ JOBS[last.job_id].error # NoError)

(* -------------------------------- C15 --------------------------------- *)
\* C15: under every configuration, a request whose token is missing or is
\* not the configured secret is answered 401 and leaves the job registry, the
\* upload files, the store and the worker threads as they were.
C15_BadTokenIsUnauthorized ==
    [][(last' # last /\ (Presented(last') = NoneVal \/ Presented(last') # env.ADMIN_TOKEN)) =>
          (last'.code = 401 /\ UNCHANGED <<JOBS, tmpfs, colls, th>>)]_vars

(* -------------------------------- C20 --------------------------------- *)
\* literal prefix: s begins with the characters of p
starts_with(s, p) == Len(p) <= Len(s) /\ SubSeq(s, 1, Len(p)) = p

\* the distinct identifiers of the active dataset that begin with the
\* characters of q, in ascending order
prefix_ids(q) ==
    sorted({d.unique_id : d \in {x \in BagToSet(docs_of(target_name)) : starts_with(x.unique_id, q)}})

\* C20: over a fixed active dataset, the answer to a summary query for page p
\* and page size L with prefix q has total_unique equal to the number of
\* distinct identifiers that begin with q, and its rows are one row for each
\* identifier at positions (p-1)*L+1 .. p*L of the ascending list of those
\* identifiers, in that order.
C20_PageOfDistinctIds ==
    (view.pc = "done" /\ view.code = 200) =>
        /\ view.total_unique = Len(prefix_ids(view.q))
        /\ [i \in 1..Len(view.rows) |-> view.rows[i].unique_id]
             = SubSeq(prefix_ids(view.q), (view.page - 1) * view.limit + 1,
                      min(Len(prefix_ids(view.q)), view.page * view.limit))

(* -------------------------------- C22 --------------------------------- *)
\* the clock time a text of the form H:MM or HH:MM stands for
clock_of(t) == CHOOSE c \in Clocks : t \in {time_text(c, TRUE), time_text(c, FALSE)}

\* C22: for a record of the final day whose time is H:MM or HH:MM, the
\* aggregation pads the time to HH:MM, its minute of day is 60*hour + minute,
\* and the row of the record's identifier counts it in the early bucket iff
\* that is at most 599 and in the late bucket iff it is at least 720.
C22_TimeBuckets ==
    (view.pc = "done" /\ view.code = 200) =>
        \A d \in BagToSet(docs_of(target_name)) :
            (d.date = D25 /\ d.time \in Times) =>
                LET c == clock_of(d.time)
                    r == view.rows[1]
                IN  /\ padded_time(d.time) = time_text(c, TRUE)
                    /\ minOfDay(d.time) = 60 * c.h + c.m
                    /\ r.unique_id = d.unique_id
                    /\ r.c25_first = (IF 60 * c.h + c.m <= 599 THEN 1 ELSE 0)
                    /\ r.c_live = (IF 60 * c.h + c.m >= 720 THEN 1 ELSE 0)

\* a record stored at 0:39 was answered in the early bucket
C22_Witness ==
    /\ view.pc = "done" /\ view.code = 200
    /\ docs_of(target_name) = SetToBag({record(A1, D25, <<"0", ":", "3", "9">>)})
    /\ minOfDay(<<"0", ":", "3", "9">>) = 39
    /\ minOfDay(<<"2", "3", ":", "0", "5">>) = 1385
    /\ view.rows[1].c25_first = 1 /\ view.rows[1].c_live = 0

(* -------------------------------- C23 --------------------------------- *)
\* the names of the backup collections of a database
Backups(db) == {n \in DOMAIN db : IsBackup(n)}

\* C23: a step in which a job at its index builds ends in error is the end of
\* its worker, before either rename: the active collection keeps its name and
\* contents, no backup collection appears, and the job's staging collection,
\* when it exists, stays with its contents.
C23_IndexFailureLeavesStore ==
    [][\A j \in DOMAIN JOBS :
          (th[j].pc = "index" /\ JOBS'[j].status = "error") =>
              /\ th'[j].pc = "exit"
              /\ j \notin DOMAIN pre_swap'
              /\ (target_name \in DOMAIN colls) = (target_name \in DOMAIN colls')
              /\ target_name \in DOMAIN colls => colls'[target_name] = colls[target_name]
              /\ Backups(colls') = Backups(colls)
              /\ th[j].temp_name \in DOMAIN colls =>
                    /\ th[j].temp_name \in DOMAIN colls'
                    /\ colls'[th[j].temp_name] = colls[th[j].temp_name]]_vars

\* a job whose index build failed over a staging collection with records:
\* it is in error, it never renamed, and the staging collection is there
C23_Witness ==
    \E j \in DOMAIN JOBS :
        /\ JOBS[j].status = "error" /\ JOBS[j].error = str_e("OperationFailure")
        /\ j \notin DOMAIN pre_swap
        /\ target_name \in DOMAIN colls
        /\ th[j].temp_name \in DOMAIN colls
        /\ colls[th[j].temp_name] # EmptyBag

(* -------------------------------- C24 --------------------------------- *)
\* C24: a step in which a job's staging -> active rename fails, after its
\* active -> backup rename had moved the active collection, ends the worker
\* with the job in error; the step renames nothing (the backup is not renamed
\* back), no collection carries the active name, and the collection under the
\* job's backup name holds what the active collection held before the swap.
C24_PromoteFailureStrands ==
    [][\A j \in DOMAIN JOBS :
          (/\ th[j].pc = "promote" /\ pre_swap[j].moved
           /\ JOBS'[j].status # JOBS[j].status) =>
              /\ JOBS'[j].status = "error"
              /\ th'[j].pc = "exit"
              /\ colls' = colls
              /\ target_name \notin DOMAIN colls'
              /\ th[j].backup_name \in DOMAIN colls'
              /\ colls'[th[j].backup_name] = pre_swap[j].docs]_vars

(* -------------------------------- C25 --------------------------------- *)
\* C25: the fields of every job in the registry agree with each other: status
\* done goes with phase done, status error with phase error, status running
\* with one of the phases parsing, loading, indexing, swapping; ended_at is
\* set exactly when the status is done or error; an error is recorded only
\* on a job in status error.
C25_JobFieldsAgree ==
    \A j \in DOMAIN JOBS :
        LET job == JOBS[j]
        IN  /\ job.status \in {"running", "done", "error"}
            /\ (job.status = "done") = (job.phase = "done")
            /\ (job.status = "error") = (job.phase = "error")
            /\ (job.status = "running") =
                  (job.phase \in {"parsing", "loading", "indexing", "swapping"})
            /\ (job.ended_at # NoTime) = (job.status \in {"done", "error"})
            /\ job.error # NoError => job.status = "error"

\* one job is done, another ended in error, each with its end time recorded
C25_Witness ==
    \E j, k \in DOMAIN JOBS :
        /\ JOBS[j].status = "done" /\ JOBS[j].phase = "done" /\ JOBS[j].ended_at # NoTime
        /\ JOBS[k].status = "error" /\ JOBS[k].phase = "error"
        /\ JOBS[k].error # NoError /\ JOBS[k].ended_at # NoTime

(* -------------------------------- C21 --------------------------------- *)
\* the rows of page p of the summary with page size L and filter q over the
\* active dataset
summary_page(q, p, L) ==
    aggregate(docs_of(target_name),
              skip_limit(sorted(distinct_ids(docs_of(target_name), q)), (p - 1) * L, L))

\* the pages from page p on, one after the other
RECURSIVE pages_from(_, _, _)
pages_from(q, p, L) ==
    IF summary_page(q, p, L) = <<>> THEN <<>>
    ELSE summary_page(q, p, L) \o pages_from(q, p + 1, L)

\* the page sizes the export is compared with
PageSizes == {1, 2, 3, limit_default}

\* C21: over a fixed active dataset, a summary response holds the rows of its
\* page, and the lines of a finished export after the header line are, for
\* every page size, the rows of all pages of the summary with the same filter
\* one after the other: the same identifiers once each in ascending order,
\* with the same counts, pre_total and perfect (written O or X).
C21_ExportIsAllPages ==
    /\ (view.pc = "done" /\ view.code = 200) =>
          view.rows = summary_page(view.q, view.page, view.limit)
    /\ view.pc = "exported" =>
          /\ view.out[1] = export_header
          /\ \A L \in PageSizes :
                Tail(view.out) = [i \in 1..Len(pages_from(view.q, 1, L)) |->
                                    export_line(pages_from(view.q, 1, L)[i])]

\* an export of three identifiers was sent in two batches, the last of them
\* partial
C21_Witness ==
    /\ view.pc = "exported"
    /\ Len(view.out) = 4
    /\ view.batches = 2
    /\ view.out[2][1] = A1 /\ view.out[3][1] = A2 /\ view.out[4][1] = B1

(* -------------------------------- C26 --------------------------------- *)
\* the response of a summary request as it would be over the dataset coll
Describes(coll) ==
    /\ view.page_ids = skip_limit(sorted(distinct_ids(coll, view.q)),
                                  (view.page - 1) * view.limit, view.limit)
    /\ view.total_unique = count_ids(coll, view.q, 0)
    /\ view.rows = aggregate(coll, view.page_ids)
    /\ view.count = Len(view.page_ids)

\* C26: also while ingestion jobs swap the active collection, a summary
\* response describes one dataset: one of the datasets its queries found
\* gives the identifiers of the page, a row for each of them, their number
\* as count, and total_unique.
C26_ResponseOfOneDataset ==
    (view.pc = "done" /\ view.code = 200) =>
        \E i \in 1..Len(view.read) : Describes(view.read[i])

====
